---- MODULE Spec2Model ----
(***************************************************************************)
(* Model of real_c_string (src/src/lib.rs): the proc macros real_c_string! *)
(* and real_c_wstring! expanded over the same string literal.  Each macro  *)
(* invocation walks `input.string.chars().enumerate()`, maps every char to *)
(* one token group (a signed literal or a compile_error! invocation),      *)
(* collects them, and emits `&[ ... 0iN,] as *const iN`.                   *)
(***************************************************************************)
EXTENDS Integers, Sequences, FiniteSets, TLC

\* Longest string literal explored.
MaxLen == 3

\* Unicode scalar values a literal may contain: U+0000, 'H', the i8 and i16
\* sign boundaries, both max_char boundaries, Cyrillic 'П' (1055), and the
\* first scalar above the BMP.  Surrogates are not chars and are left out.
Scalars == {0, 72, 127, 128, 255, 256, 1055, 32767, 32768, 65535, 65536}

\* enum TransformType
TransformType == {"CString", "CWString"}

\* Sequences over S of length at most n.
SeqUpTo(S, n) == UNION {[1..k -> S] : k \in 0..n}

VARIABLES
    string,   \* RealCString.string, as its sequence of chars
    chars,    \* per invocation: what the Chars iterator has not yielded yet
    offset,   \* per invocation: the Enumerate counter
    bytes,    \* per invocation: token groups collected so far
    pc,       \* per invocation: "map" while collecting, "done" once emitted
    stream    \* per invocation: the emitted expression

vars == <<string, chars, offset, bytes, pc, stream>>

\* TransformType::max_char, with both arms returning the narrow limit.
max_char_narrow_only(tt) ==
    CASE tt = "CString" -> 255
      [] tt = "CWString" -> 255

\* TransformType::max_char, with the two arms swapped.
max_char_swapped(tt) ==
    CASE tt = "CString" -> 65535
      [] tt = "CWString" -> 255

\* TransformType::max_char
max_char(tt) ==
    CASE tt = "CString" -> 255
      [] tt = "CWString" -> 65535

\* A cast that keeps the low 8 bits unsigned, as `as u8` would.
as_u8(c) == c % 256

\* A cast that saturates at i8::MAX instead of wrapping.
as_i8_saturating(c) == IF c > 127 THEN 127 ELSE c

\* `out as i8`: char -> u32, truncated to 8 bits, read as two's complement.
as_i8(c) ==
    LET t == c % 256
    IN  IF t >= 128 THEN t - 256 ELSE t

\* `out as i16`: char -> u32, truncated to 16 bits, read as two's complement.
as_i16(c) ==
    LET t == c % 65536
    IN  IF t >= 32768 THEN t - 65536 ELSE t

\* quote! {#res,} for an i8 / i16: a suffixed integer literal.
Lit(res, suffix) == [kind |-> "lit", val |-> res, suffix |-> suffix]

\* quote! { ::core::compile_error!(::core::concat!(..., #cur_char, ..., #offset)), }
CompileError(cur_char, off) ==
    [kind |-> "compile_error", cur_char |-> cur_char, offset |-> off]

\* The map closure reporting a one-based offset.
closure_one_based(off, cur_char, tt) ==
    IF cur_char <= max_char(tt)
    THEN CASE tt = "CString" -> Lit(as_i8(cur_char), "i8")
           [] tt = "CWString" -> Lit(as_i16(cur_char), "i16")
    ELSE CompileError(cur_char, off + 1)

\* The map closure replacing an unsupported char by '?' instead of failing.
closure_lossy(off, cur_char, tt) ==
    LET out == IF cur_char <= max_char(tt) THEN cur_char ELSE 63
    IN  CASE tt = "CString" -> Lit(as_i8(out), "i8")
          [] tt = "CWString" -> Lit(as_i16(out), "i16")

\* The map closure also rejecting an interior NUL.
closure_reject_nul(off, cur_char, tt) ==
    IF cur_char <= max_char(tt) /\ cur_char # 0
    THEN CASE tt = "CString" -> Lit(as_i8(cur_char), "i8")
           [] tt = "CWString" -> Lit(as_i16(cur_char), "i16")
    ELSE CompileError(cur_char, off)

\* The closure passed to .map(): lines 51-73.
closure(off, cur_char, tt) ==
    IF cur_char <= max_char(tt)
    THEN CASE tt = "CString" -> Lit(as_i8(cur_char), "i8")
           [] tt = "CWString" -> Lit(as_i16(cur_char), "i16")
    ELSE CompileError(cur_char, off)

\* The final quote! without the trailing terminator.
emit_no_terminator(bs, tt) ==
    CASE tt = "CString" -> [elems |-> bs, cast |-> "*const i8"]
      [] tt = "CWString" -> [elems |-> bs, cast |-> "*const i16"]

\* The final quote! with the zero placed before the interpolated groups.
emit_zero_first(bs, tt) ==
    CASE tt = "CString" -> [elems |-> <<Lit(0, "i8")>> \o bs, cast |-> "*const i8"]
      [] tt = "CWString" -> [elems |-> <<Lit(0, "i16")>> \o bs, cast |-> "*const i16"]

\* The final quote!: `&[#(#bytes)* 0iN,] as *const iN`, lines 75-82.
emit(bs, tt) ==
    CASE tt = "CString" -> [elems |-> Append(bs, Lit(0, "i8")), cast |-> "*const i8"]
      [] tt = "CWString" -> [elems |-> Append(bs, Lit(0, "i16")), cast |-> "*const i16"]

\* No expression emitted yet.
NoStream == [elems |-> <<>>, cast |-> "none"]

IsError(t) == t.kind = "compile_error"

\* An iterator that also stops at the first failed element, as collecting
\* into a Result would.
exhausted_fail_fast(tt) ==
    \/ chars[tt] = <<>>
    \/ \E k \in 1..Len(bytes[tt]) : IsError(bytes[tt][k])

\* Chars::next() returns None: the walk is over.
exhausted(tt) == chars[tt] = <<>>

Init ==
    /\ string \in SeqUpTo(Scalars, MaxLen)
    /\ chars = [tt \in TransformType |-> string]
    /\ offset = [tt \in TransformType |-> 0]
    /\ bytes = [tt \in TransformType |-> <<>>]
    /\ pc = [tt \in TransformType |-> "map"]
    /\ stream = [tt \in TransformType |-> NoStream]

\* One turn of collect(): the next (offset, cur_char) goes through the closure.
transform_map(tt) ==
    /\ pc[tt] = "map"
    /\ ~exhausted(tt)
    /\ bytes' = [bytes EXCEPT ![tt] = Append(@, closure(offset[tt], Head(chars[tt]), tt))]
    /\ chars' = [chars EXCEPT ![tt] = Tail(@)]
    /\ offset' = [offset EXCEPT ![tt] = @ + 1]
    /\ UNCHANGED <<string, pc, stream>>

\* collect() returns and the expression is built from the collected groups.
transform_emit(tt) ==
    /\ pc[tt] = "map"
    /\ exhausted(tt)
    /\ stream' = [stream EXCEPT ![tt] = emit(bytes[tt], tt)]
    /\ pc' = [pc EXCEPT ![tt] = "done"]
    /\ UNCHANGED <<string, chars, offset, bytes>>

\* #[proc_macro] real_c_string
real_c_string == transform_map("CString") \/ transform_emit("CString")

\* #[proc_macro] real_c_wstring
real_c_wstring == transform_map("CWString") \/ transform_emit("CWString")

Next == real_c_string \/ real_c_wstring

Spec == Init /\ [][Next]_vars

----
\* Vocabulary of the properties.

Done(tt) == pc[tt] = "done"

\* Largest scalar a unit of the width can hold: 0xFF narrow, 0xFFFF wide.
MaxScalarValue(tt) == IF tt = "CString" THEN 255 ELSE 65535

\* Unit size in bits of the width.
UnitBits(tt) == IF tt = "CString" THEN 8 ELSE 16

Suffix(tt) == IF tt = "CString" THEN "i8" ELSE "i16"

Pow2(n) == 2 ^ n

\* A signed unit read back as unsigned of the same width.
AsUnsigned(v, tt) == v % Pow2(UnitBits(tt))

IsLit(t) == t.kind = "lit"

InRange(tt) == \A k \in 1..Len(string) : string[k] <= MaxScalarValue(tt)

\* An expression that compiles to an array: no compile_error! inside.
Usable(tt) == Done(tt) /\ \A k \in 1..Len(stream[tt].elems) : IsLit(stream[tt].elems[k])

Diagnostics(seq) == SelectSeq(seq, IsError)

OutOfRange(n, tt) == {k \in 1..n : string[k] > MaxScalarValue(tt)}

----
\* C1: the emitted sequence has scalar_count(input) + 1 elements at both
\* widths whether or not some scalars are out of range; during the walk each
\* scalar consumed has contributed exactly one element.
C1_LengthLaw ==
    \A tt \in TransformType :
        /\ Len(bytes[tt]) = offset[tt]
        /\ Len(bytes[tt]) + Len(chars[tt]) = Len(string)
        /\ Done(tt) => Len(stream[tt].elems) = Len(string) + 1

\* An emitted sequence whose input mixes in-range and out-of-range scalars.
C1_Witness ==
    \E tt \in TransformType :
        /\ Done(tt)
        /\ Len(string) >= 2
        /\ \E i, j \in 1..Len(string) :
              IsError(stream[tt].elems[i]) /\ IsLit(stream[tt].elems[j])
        /\ Len(stream[tt].elems) = Len(string) + 1

\* C2: for an input whose scalars all fit the width, reading every
\* non-terminator unit as unsigned of the same width gives back the input,
\* element by element.
C2_RoundTrip ==
    \A tt \in TransformType :
        (Done(tt) /\ InRange(tt)) =>
            /\ Len(stream[tt].elems) = Len(string) + 1
            /\ \A k \in 1..Len(string) :
                  /\ IsLit(stream[tt].elems[k])
                  /\ AsUnsigned(stream[tt].elems[k].val, tt) = string[k]

\* A round trip through a negative unit of the narrow width.
C2_Witness ==
    /\ Done("CString") /\ Done("CWString")
    /\ InRange("CString")
    /\ Len(string) >= 2
    /\ \E k \in 1..Len(string) :
          /\ string[k] = 255
          /\ stream["CString"].elems[k].val < 0
          /\ AsUnsigned(stream["CString"].elems[k].val, "CString") = 255

\* C3: diagnostics accumulate: the walk ends only when every scalar has been
\* visited, the number of diagnostics equals the number of out-of-range
\* scalars, and an earlier offender suppresses neither the diagnostic nor the
\* encoding of a later scalar.
C3_Accumulating ==
    \A tt \in TransformType :
        /\ Cardinality({k \in 1..Len(bytes[tt]) : IsError(bytes[tt][k])})
              = Cardinality(OutOfRange(offset[tt], tt))
        /\ Done(tt) =>
              /\ offset[tt] = Len(string)
              /\ Len(Diagnostics(stream[tt].elems)) = Cardinality(OutOfRange(Len(string), tt))
              /\ \A k \in 1..Len(string) :
                    IsError(stream[tt].elems[k]) <=> string[k] > MaxScalarValue(tt)

\* An offender followed by a valid scalar followed by another offender.
C3_Witness ==
    \E tt \in TransformType :
        /\ Done(tt)
        /\ \E i, j, k \in 1..Len(string) :
              /\ i < j /\ j < k
              /\ IsError(stream[tt].elems[i])
              /\ IsLit(stream[tt].elems[j])
              /\ IsError(stream[tt].elems[k])
        /\ Len(Diagnostics(stream[tt].elems)) = 2

\* C4: each diagnostic carries the offending scalar and its zero-based index
\* in the scalar sequence, and diagnostics come in strictly ascending offset.
C4_DiagnosticContent ==
    \A tt \in TransformType :
        LET all == IF Done(tt) THEN stream[tt].elems ELSE bytes[tt]
            ds  == Diagnostics(all)
        IN  /\ \A k \in 1..Len(all) :
                  IsError(all[k]) =>
                      /\ k <= Len(string)
                      /\ all[k].offset = k - 1
                      /\ all[k].cur_char = string[k]
            /\ \A i, j \in 1..Len(ds) : i < j => ds[i].offset < ds[j].offset

\* Two diagnostics at offsets 1 and 2, after a valid first scalar.
C4_Witness ==
    \E tt \in TransformType :
        /\ Done(tt)
        /\ Len(Diagnostics(stream[tt].elems)) >= 2
        /\ IsLit(stream[tt].elems[1])
        /\ Diagnostics(stream[tt].elems)[1].offset = 1
        /\ Diagnostics(stream[tt].elems)[2].offset = 2

\* C5: a scalar is encoded without diagnostic iff it is <= 0xFF (narrow) or
\* <= 0xFFFF (wide); 0xFF and 0xFFFF are accepted, 0x100 and 0x10000 rejected.
C5_ValidityBoundary ==
    /\ \A k \in 1..Len(bytes["CString"]) :
          IsLit(bytes["CString"][k]) <=> string[k] <= 255
    /\ \A k \in 1..Len(bytes["CWString"]) :
          IsLit(bytes["CWString"][k]) <=> string[k] <= 65535
    /\ \A tt \in TransformType : \A k \in 1..Len(bytes[tt]) :
          IsLit(bytes[tt][k]) \/ IsError(bytes[tt][k])

\* Both walks over a string holding 0xFF, 0xFFFF and 0x10000: the narrow one
\* accepts only the first, the wide one rejects only the last.
C5_Witness ==
    /\ Done("CString") /\ Done("CWString")
    /\ \E i, j, k \in 1..Len(string) :
          /\ string[i] = 255 /\ IsLit(bytes["CString"][i])
          /\ string[j] = 65535 /\ IsError(bytes["CString"][j]) /\ IsLit(bytes["CWString"][j])
          /\ string[k] = 65536 /\ IsError(bytes["CWString"][k])

\* C6: a valid scalar c at unit width w is emitted as c when c < 2^(w-1) and
\* as c - 2^w otherwise, so every unit lies in [-2^(w-1), 2^(w-1) - 1].
C6_SignedReinterpretation ==
    \A tt \in TransformType : \A k \in 1..Len(bytes[tt]) :
        IsLit(bytes[tt][k]) =>
            LET c == string[k]
                w == UnitBits(tt)
                v == bytes[tt][k].val
            IN  /\ v = IF c < Pow2(w - 1) THEN c ELSE c - Pow2(w)
                /\ v >= 0 - Pow2(w - 1)
                /\ v <= Pow2(w - 1) - 1
                /\ bytes[tt][k].suffix = Suffix(tt)

\* 0x80 stored as -128 narrow and as 128 wide, next to Cyrillic 1055 unchanged.
C6_Witness ==
    \E i, j \in 1..Len(string) :
        /\ i <= Len(bytes["CString"]) /\ i <= Len(bytes["CWString"])
        /\ j <= Len(bytes["CWString"])
        /\ string[i] = 128
        /\ bytes["CString"][i] = Lit(0 - 128, "i8")
        /\ bytes["CWString"][i] = Lit(128, "i16")
        /\ string[j] = 1055
        /\ bytes["CWString"][j] = Lit(1055, "i16")

\* C7: the last element is a 0 unit appended after the walk, on top of the
\* one element per scalar; the empty input gives exactly [0].
C7_Terminator ==
    \A tt \in TransformType :
        Done(tt) =>
            LET e == stream[tt].elems
            IN  /\ Len(e) = Len(string) + 1
                /\ e[Len(e)] = Lit(0, Suffix(tt))
                /\ SubSeq(e, 1, Len(e) - 1) = bytes[tt]
                /\ Len(bytes[tt]) = Len(string)
                /\ string = <<>> => e = <<Lit(0, Suffix(tt))>>

\* A terminator emitted right after a non-zero last scalar.
C7_Witness ==
    \E tt \in TransformType :
        /\ Done(tt)
        /\ string # <<>>
        /\ string[Len(string)] # 0
        /\ string[1] = 0
        /\ stream[tt].elems[Len(string) + 1] = Lit(0, Suffix(tt))

\* C8: the emitted expression is usable iff no scalar is out of range; with
\* an offender there is a compile_error! at every offending position while
\* the other scalars are still encoded.
C8_NoPartialSuccess ==
    \A tt \in TransformType :
        Done(tt) =>
            /\ Usable(tt) <=> InRange(tt)
            /\ \A k \in 1..Len(string) :
                  IF string[k] > MaxScalarValue(tt)
                  THEN IsError(stream[tt].elems[k])
                  ELSE /\ IsLit(stream[tt].elems[k])
                       /\ AsUnsigned(stream[tt].elems[k].val, tt) = string[k]

\* A failed narrow expansion that still holds an encoded unit, next to a
\* usable wide expansion of the same string.
C8_Witness ==
    /\ Done("CString") /\ Done("CWString")
    /\ ~Usable("CString")
    /\ Usable("CWString")
    /\ \E k \in 1..Len(string) : IsLit(stream["CString"].elems[k])

\* C9: an input valid at narrow is valid at wide with the same length, and
\* the two sequences hold the same integers when every scalar is below 0x80.
C9_NarrowWideAgreement ==
    (Usable("CString") /\ Done("CWString")) =>
        LET n == stream["CString"].elems
            w == stream["CWString"].elems
        IN  /\ Usable("CWString")
            /\ Len(w) = Len(n)
            /\ stream["CWString"].cast = "*const i16"
            /\ (\A k \in 1..Len(string) : string[k] < 128) =>
                  \A k \in 1..Len(n) :
                      /\ w[k].val = n[k].val
                      /\ w[k].suffix = "i16"

\* An ASCII string of two or more chars expanded at both widths.
C9_Witness ==
    /\ Usable("CString") /\ Usable("CWString")
    /\ Len(string) >= 2
    /\ \A k \in 1..Len(string) : string[k] < 128
    /\ \E k \in 1..Len(string) : string[k] = 72 /\ stream["CWString"].elems[k].val = 72

\* C10: in a usable expression the unit at a non-final index is 0 iff the
\* scalar there is U+0000; U+0000 is accepted at both widths, so the
\* terminator is the first 0 unit exactly when the input has no U+0000.
C10_EmbeddedZeros ==
    \A tt \in TransformType :
        /\ \A k \in 1..Len(bytes[tt]) :
              string[k] = 0 => bytes[tt][k] = Lit(0, Suffix(tt))
        /\ Usable(tt) =>
              LET e == stream[tt].elems
                  zeros == {i \in 1..Len(e) : e[i].val = 0}
              IN  /\ \A k \in 1..(Len(e) - 1) : e[k].val = 0 <=> string[k] = 0
                  /\ Len(e) \in zeros
                  /\ (\A i \in zeros : i >= Len(e))
                        <=> \A k \in 1..Len(string) : string[k] # 0

\* A usable expression with an interior 0 unit ahead of the terminator.
C10_Witness ==
    \E tt \in TransformType :
        /\ Usable(tt)
        /\ Len(string) >= 2
        /\ string[2] = 0
        /\ string[1] # 0
        /\ stream[tt].elems[2].val = 0
        /\ stream[tt].elems[1].val # 0

====
